---- MODULE Spec2Model ----
(***************************************************************************)
(* Model of the DTCG design-token validator (packages/validator) and of   *)
(* the schema predicates it consults (packages/schema).                    *)
(*                                                                         *)
(* A JavaScript string is a sequence of characters.  A character is one   *)
(* of the punctuation marks the code inspects ("{", "}", ".", "$", "#",   *)
(* "/") or an atom standing for a non-empty run of letters.               *)
(***************************************************************************)
EXTENDS Integers, Sequences, FiniteSets, TLC

VARIABLES
    doc,        \* the raw document handed to validate (data)
    pc,         \* position of validate: "start", "refs", "done"
    errors,     \* context.errors
    warnings,   \* context.warnings
    tokens,     \* context.tokens   (insertion-ordered Map: path string -> token)
    groups,     \* context.groups   (Set of path strings)
    visited,    \* validateReferences: visited
    inStack,    \* validateReferences: inStack
    idx,        \* validateReferences: position of the for loop over context.tokens
    stack,      \* call stack of resolveRef: frames [ref, fromPath, at]
    valid,      \* ValidationResult.valid, set when validate returns
    history,    \* the results of the calls of validate that returned earlier
    entry,      \* the exported function that was called
    outcome,    \* what that function returned or threw
    apiValue,   \* validateTokenValue: value
    apiType,    \* validateTokenValue: type
    apiResult,  \* validateTokenValue: what it returned
    visPc,      \* visualiser: "idle", "ready" or "done" (parseTokenObject returned)
    parseResult, \* visualiser: the ParseResult of parseTokenObject
    cliPc,      \* CLI: "idle", "main", "files" (in validateFiles) or "exited"
    files,      \* CLI: filesToValidate, each file by what reading and validating it gives
    fileIdx,    \* CLI: position of the for loop of validateFiles
    summary,    \* CLI: the ValidationSummary of validateFiles
    exitCode,   \* CLI: the code handed to process.exit, or NoExit
    dragCounter, \* DropZone: dragCounter
    isDragging, \* DropZone: the isDragging signal
    delivered,  \* DropZone: the events delivered so far
    loaded      \* DropZone: the files handed to loadFile so far

\* the variables of one call of validate
callVars == <<doc, pc, errors, warnings, tokens, groups, visited, inStack, idx, stack, valid>>
\* the variables of the caller of validate
callerVars == <<history, entry, outcome>>
\* the variables of a call of validateTokenValue
apiVars == <<apiValue, apiType, apiResult>>
\* the variables of the other entry points and programs
\* the variables of the visualiser's token parser
visVars == <<visPc, parseResult>>
\* the variables of the command line tool
cliVars == <<cliPc, files, fileIdx, summary, exitCode>>
\* the variables of the DropZone component
dropVars == <<dragCounter, isDragging, delivered, loaded>>
otherVars == <<apiVars, visVars, cliVars, dropVars>>

vars == <<callVars, callerVars, otherVars>>

-----------------------------------------------------------------------------
(* Bounds of the model *)

\* number of alias-capable tokens at the root of a generated document
NumTokens == 3
\* the deepest nesting of the documents that vary the names of nodes
MaxNest == 3
\* deepest resolveRef recursion the model follows
MaxDepth == 8

-----------------------------------------------------------------------------
(* Strings *)

\* String.prototype.startsWith / endsWith for a one-character argument
StartsWith(s, c) == Len(s) >= 1 /\ s[1] = c
EndsWith(s, c) == Len(s) >= 1 /\ s[Len(s)] = c

\* Array.prototype.join(sep) on an array of strings
RECURSIVE Join(_, _)
Join(parts, sep) ==
    IF Len(parts) = 0 THEN <<>>
    ELSE IF Len(parts) = 1 THEN parts[1]
    ELSE parts[1] \o <<sep>> \o Join(Tail(parts), sep)

\* String.prototype.split(sep): always at least one part
RECURSIVE SplitFrom(_, _, _, _)
SplitFrom(s, sep, i, cur) ==
    IF i > Len(s) THEN <<cur>>
    ELSE IF s[i] = sep THEN <<cur>> \o SplitFrom(s, sep, i + 1, <<>>)
    ELSE SplitFrom(s, sep, i + 1, Append(cur, s[i]))

Split(s, sep) == SplitFrom(s, sep, 1, <<>>)

\* ref.replace(/^\{|\}$/g, "")
StripBraces(ref) ==
    LET a == IF StartsWith(ref, "{") THEN Tail(ref) ELSE ref
    IN  IF EndsWith(a, "}") THEN SubSeq(a, 1, Len(a) - 1) ELSE a

-----------------------------------------------------------------------------
(* JSON values.  Every value is a record with a kind; the other fields     *)
(* depend on the kind and are read only after the kind has been tested.    *)

\* no such property ("$value" in node is false)
Absent == [kind |-> "absent"]
\* a JSON string
Str(s) == [kind |-> "string", chars |-> s]
Bool(b) == [kind |-> "boolean", b |-> b]
\* {colorSpace: "srgb", components: [...n numbers...]}, c tells values apart
Color(n, c) == [kind |-> "color", comps |-> n, c |-> c]
\* {value: 4, unit: u}
Dim(u) == [kind |-> "dimension", unit |-> u]
\* {color, offsetX: 0px, offsetY, blur: 8px}
Shadow(color, offsetY) ==
    [kind |-> "shadow", color |-> color, offsetX |-> Dim("px"),
     offsetY |-> offsetY, blur |-> Dim("px")]
\* {"$ref": p}
Ref(p) == [kind |-> "ref", ref |-> p]
\* a JSON number, counted in tenths: Num(5) is 0.5 and Num(10) is 1
Num(n) == [kind |-> "number", n |-> n]
\* a JSON array of values
Arr(items) == [kind |-> "array", items |-> items]
\* {color, width, style}
Border(color, width, style) ==
    [kind |-> "border", color |-> color, width |-> width, style |-> style]
\* {color, position}, a gradient stop
Stop(color, position) == [kind |-> "stop", color |-> color, position |-> position]

\* typeof value === "string"
IsString(v) == v.kind = "string"

\* the alias string "{a.b}" for the path <<a, b>>
Alias(path) == Str(<<"{">> \o Join(path, ".") \o <<"}">>)
\* the pointer object {"$ref": "#/a/b"} for the segments <<a, b>>
Pointer(segs) == Ref(<<"#", "/">> \o Join(segs, "/"))

-----------------------------------------------------------------------------
(* Schema predicates (packages/schema) *)

TOKEN_TYPES ==
    {"color", "dimension", "fontFamily", "fontWeight", "duration", "cubicBezier",
     "number", "typography", "shadow", "border", "gradient", "transition",
     "strokeStyle"}

DIMENSION_UNITS == {"px", "rem"}
DURATION_UNITS == {"ms", "s"}

\* keywords, as strings of the model (a run of letters is one element)
FONT_WEIGHT_KEYWORDS ==
    {<<"thin">>, <<"hairline">>, <<"extra-light">>, <<"ultra-light">>,
     <<"light">>, <<"normal">>, <<"regular">>, <<"book">>, <<"medium">>,
     <<"semi-bold">>, <<"demi-bold">>, <<"bold">>, <<"extra-bold">>,
     <<"ultra-bold">>, <<"black">>, <<"heavy">>, <<"extra-black">>,
     <<"ultra-black">>}
BORDER_STYLES ==
    {<<"solid">>, <<"dashed">>, <<"dotted">>, <<"double">>, <<"groove">>,
     <<"ridge">>, <<"outset">>, <<"inset">>, <<"none">>}

\* $type is not present on the node
NoType == "<none>"

\* TokenTypeSchema.safeParse(t).success
TokenTypeOk(t) == t \in TOKEN_TYPES

\* (mutant) a dot in a name goes unnoticed
TokenNameOkDotAllowed(name) ==
    /\ Len(name) >= 1
    /\ ~StartsWith(name, "$")
    /\ \A i \in 1..Len(name) : name[i] \notin {"{", "}"}

\* TokenNameSchema.safeParse(name).success
TokenNameOk(name) ==
    /\ Len(name) >= 1
    /\ ~StartsWith(name, "$")
    /\ \A i \in 1..Len(name) : name[i] \notin {"{", "}", "."}

\* CurlyBraceReferenceSchema.safeParse(s).success, s a string
CurlyBraceReferenceOk(s) ==
    /\ Len(s) >= 3
    /\ s[1] = "{"
    /\ s[Len(s)] = "}"
    /\ \A i \in 2..(Len(s) - 1) : s[i] \notin {"{", "}"}
    /\ LET parts == Split(SubSeq(s, 2, Len(s) - 1), ".")
       IN  \A i \in 1..Len(parts) : Len(parts[i]) > 0 /\ ~StartsWith(parts[i], "$")

\* JsonPointerReferenceSchema.safeParse({"$ref": p}).success, p a string
JsonPointerOk(p) ==
    /\ Len(p) >= 2
    /\ p[1] = "#"
    /\ p[2] = "/"
    /\ LET path == SubSeq(p, 3, Len(p))
           segs == Split(path, "/")
       IN  path = <<>> \/ \A i \in 1..Len(segs) : Len(segs[i]) > 0

\* ColorValueSchema: components has 3 or 4 entries
ColorValueOk(v) == v.kind = "color" /\ v.comps >= 3 /\ v.comps <= 4

\* DimensionValueSchema
DimensionValueOk(v) == v.kind = "dimension" /\ v.unit \in DIMENSION_UNITS

\* FontFamilyValueSchema: a non-empty string or a non-empty array of them
FontFamilyValueOk(v) ==
    \/ v.kind = "string" /\ Len(v.chars) >= 1
    \/ /\ v.kind = "array"
       /\ Len(v.items) >= 1
       /\ \A i \in 1..Len(v.items) :
              v.items[i].kind = "string" /\ Len(v.items[i].chars) >= 1

\* FontWeightValueSchema: an integer from 1 to 1000, or a keyword
FontWeightValueOk(v) ==
    \/ v.kind = "number" /\ v.n % 10 = 0 /\ v.n >= 10 /\ v.n <= 10000
    \/ v.kind = "string" /\ v.chars \in FONT_WEIGHT_KEYWORDS

\* DurationValueSchema: {value, unit} with value >= 0 (the value of the
\* model's {value, unit} objects is 4)
DurationValueOk(v) == v.kind = "dimension" /\ v.unit \in DURATION_UNITS

\* (mutant) the range is demanded of all four entries
CubicBezierAllInRange(v) ==
    /\ v.kind = "array"
    /\ Len(v.items) = 4
    /\ \A i \in 1..4 : v.items[i].kind = "number"
    /\ \A i \in 1..4 : v.items[i].n >= 0 /\ v.items[i].n <= 10

\* CubicBezierValueSchema: a tuple of four numbers, refined on p1x and p2x
CubicBezierValueOk(v) ==
    /\ v.kind = "array"
    /\ Len(v.items) = 4
    /\ \A i \in 1..4 : v.items[i].kind = "number"
    /\ v.items[1].n >= 0 /\ v.items[1].n <= 10
    /\ v.items[3].n >= 0 /\ v.items[3].n <= 10

\* NumberValueSchema
NumberValueOk(v) == v.kind = "number"

\* StrokeStyleValueSchema, keyword branch (no value of the model has a
\* dashArray)
StrokeStyleValueOk(v) == v.kind = "string" /\ v.chars \in BORDER_STYLES

\* z.union([X, CurlyBraceReferenceSchema]) for a sub-field of a composite
IsCurlyRef(v) == v.kind = "string" /\ CurlyBraceReferenceOk(v.chars)

\* ShadowValueSchema
ShadowValueOk(v) ==
    /\ v.kind = "shadow"
    /\ ColorValueOk(v.color) \/ IsCurlyRef(v.color)
    /\ DimensionValueOk(v.offsetX) \/ IsCurlyRef(v.offsetX)
    /\ DimensionValueOk(v.offsetY) \/ IsCurlyRef(v.offsetY)
    /\ DimensionValueOk(v.blur) \/ IsCurlyRef(v.blur)

\* ShadowOrArraySchema
ShadowOrArrayOk(v) ==
    \/ ShadowValueOk(v)
    \/ /\ v.kind = "array"
       /\ Len(v.items) >= 1
       /\ \A i \in 1..Len(v.items) : ShadowValueOk(v.items[i])

\* BorderValueSchema
BorderValueOk(v) ==
    /\ v.kind = "border"
    /\ ColorValueOk(v.color) \/ IsCurlyRef(v.color)
    /\ DimensionValueOk(v.width) \/ IsCurlyRef(v.width)
    /\ \/ v.style.kind = "string" /\ v.style.chars \in BORDER_STYLES
       \/ IsCurlyRef(v.style)

\* GradientStopSchema
GradientStopOk(v) ==
    /\ v.kind = "stop"
    /\ ColorValueOk(v.color) \/ IsCurlyRef(v.color)
    /\ v.position.kind = "number" /\ v.position.n >= 0 /\ v.position.n <= 10

\* GradientValueSchema
GradientValueOk(v) ==
    /\ v.kind = "array"
    /\ Len(v.items) >= 2
    /\ \A i \in 1..Len(v.items) : GradientStopOk(v.items[i])

\* TokenValueByType[type].safeParse(value).success for the value kinds of the
\* model; none of them has the required keys of a typography or a transition
ValueOkForType(type, v) ==
    CASE type = "color" -> ColorValueOk(v)
      [] type = "dimension" -> DimensionValueOk(v)
      [] type = "fontFamily" -> FontFamilyValueOk(v)
      [] type = "fontWeight" -> FontWeightValueOk(v)
      [] type = "duration" -> DurationValueOk(v)
      [] type = "cubicBezier" -> CubicBezierValueOk(v)
      [] type = "number" -> NumberValueOk(v)
      [] type = "strokeStyle" -> StrokeStyleValueOk(v)
      [] type = "shadow" -> ShadowOrArrayOk(v)
      [] type = "border" -> BorderValueOk(v)
      [] type = "gradient" -> GradientValueOk(v)
      [] OTHER -> FALSE

\* AnyTokenValueSchema.safeParse(value).success
AnyTokenValueOk(v) ==
    \/ ColorValueOk(v)
    \/ DimensionValueOk(v)
    \/ FontFamilyValueOk(v)
    \/ FontWeightValueOk(v)
    \/ DurationValueOk(v)
    \/ CubicBezierValueOk(v)
    \/ NumberValueOk(v)
    \/ ShadowOrArrayOk(v)
    \/ BorderValueOk(v)
    \/ GradientValueOk(v)
    \/ StrokeStyleValueOk(v)
    \/ v.kind = "string" /\ CurlyBraceReferenceOk(v.chars)
    \/ v.kind = "ref" /\ JsonPointerOk(v.ref)

-----------------------------------------------------------------------------
(* Document nodes.  A node is a JSON object: its reserved properties and   *)
(* its object-valued properties (entries) in key order.                    *)

Node(type, value, deprecated, extends, unknown, entries) ==
    [kind |-> "object",
     type |-> type,             \* $type, or NoType
     value |-> value,           \* $value, or Absent
     deprecated |-> deprecated, \* $deprecated (a boolean or a string), or Absent
     extends |-> extends,       \* $extends (a string value), or Absent
     unknown |-> unknown,       \* other keys starting with "$", in key order
     entries |-> entries]       \* <<[key, node]>>: keys whose value is an object

Tok(type, value) == Node(type, value, Absent, Absent, <<>>, <<>>)
Grp(type, extends, entries) == Node(type, Absent, Absent, extends, <<>>, entries)
Entry(key, node) == [key |-> key, node |-> node]

\* "$value" in node
HasValue(node) == node.value.kind # "absent"
\* "$type" in node
HasType(node) == node.type # NoType
\* (mutant) only the value true counts
TruthyOnlyTrue(v) == v.kind = "boolean" /\ v.b
\* the truthiness of a property value, as `if (node.$deprecated)` tests it
Truthy(v) ==
    CASE v.kind = "absent" -> FALSE
      [] v.kind = "boolean" -> v.b
      [] v.kind = "string" -> Len(v.chars) > 0
      [] OTHER -> TRUE

-----------------------------------------------------------------------------
(* Diagnostics and the validation context *)

E001 == "E001"
E002 == "E002"
E011 == "E011"
E020 == "E020"
E021 == "E021"
E030 == "E030"
E031 == "E031"
E032 == "E032"
E040 == "E040"
E041 == "E041"

Diag(code, path) == [code |-> code, path |-> path, severity |-> "error"]
\* (mutant) a warning is built with the severity of an error
WarningAsError(code, path) == [code |-> code, path |-> path, severity |-> "error"]
Warning(code, path) == [code |-> code, path |-> path, severity |-> "warning"]

\* getErrorCodeForType
getErrorCodeForType(type) ==
    CASE type = "color" -> E040
      [] type = "dimension" -> E041
      [] type = "fontWeight" -> "E042"
      [] type = "duration" -> "E043"
      [] type = "cubicBezier" -> "E044"
      [] type = "gradient" -> "E045"
      [] type \in {"border", "strokeStyle"} -> "E046"
      [] OTHER -> E021

\* Map.prototype.has / get / set on an insertion-ordered map <<[key, val]>>
MapHas(m, k) == \E i \in 1..Len(m) : m[i].key = k
MapGet(m, k) == m[CHOOSE i \in 1..Len(m) : m[i].key = k].val
MapSet(m, k, v) ==
    IF MapHas(m, k)
    THEN [i \in 1..Len(m) |-> IF m[i].key = k THEN [key |-> k, val |-> v] ELSE m[i]]
    ELSE Append(m, [key |-> k, val |-> v])

EmptyContext == [errors |-> <<>>, warnings |-> <<>>, tokens |-> <<>>, groups |-> {}]

-----------------------------------------------------------------------------
(* First pass: TokenFileSchema.safeParse and convertZodErrors *)

RECURSIVE TokenFileNodeOk(_)
\* TokenSchema.safeParse(node).success
TokenSchemaOk(node) ==
    /\ HasValue(node)
    /\ AnyTokenValueOk(node.value)
    /\ HasType(node) => TokenTypeOk(node.type)

\* GroupBaseSchema.catchall(TokenFileNodeSchema).safeParse(node).success:
\* a $value or an unknown "$" key falls to the catchall, where the values of
\* the model (strings, colors, dimensions, shadows, pointers) are no nodes
GroupSchemaOk(node) ==
    /\ ~HasValue(node)
    /\ Len(node.unknown) = 0
    /\ HasType(node) => TokenTypeOk(node.type)
    /\ node.extends.kind # "absent" =>
          node.extends.kind = "string" /\ CurlyBraceReferenceOk(node.extends.chars)
    /\ \A i \in 1..Len(node.entries) :
          IF node.entries[i].key = <<"$", "root">>
          THEN TokenSchemaOk(node.entries[i].node)
          ELSE TokenFileNodeOk(node.entries[i].node)

\* TokenFileNodeSchema: z.union([TokenSchema, GroupBaseSchema.catchall(...)])
TokenFileNodeOk(node) == TokenSchemaOk(node) \/ GroupSchemaOk(node)

\* the errors convertZodErrors pushes for the issues of TokenFileSchema on the
\* root object: one invalid-union issue per root key whose value is no node
\* (E021), and, when the object itself parsed, the superRefine issues for
\* unknown reserved root keys (E011) and invalid root names (E002)
RECURSIVE ZodEntryErrors(_, _)
ZodEntryErrors(entries, i) ==
    IF i > Len(entries) THEN <<>>
    ELSE (IF TokenFileNodeOk(entries[i].node) THEN <<>>
          ELSE <<Diag(E021, <<entries[i].key>>)>>)
         \o ZodEntryErrors(entries, i + 1)

RECURSIVE ZodNameErrors(_, _)
ZodNameErrors(entries, i) ==
    IF i > Len(entries) THEN <<>>
    ELSE (IF /\ ~StartsWith(entries[i].key, "$")
             /\ \E j \in 1..Len(entries[i].key) : entries[i].key[j] \in {"{", "}", "."}
          THEN <<Diag(E002, <<entries[i].key>>)>>
          ELSE <<>>)
         \o ZodNameErrors(entries, i + 1)

\* KNOWN_RESERVED_PROPERTIES, and the list of isKnownReservedProperty
KNOWN_RESERVED_PROPERTIES ==
    {<<"$", "value">>, <<"$", "type">>, <<"$", "description">>,
     <<"$", "deprecated">>, <<"$", "extensions">>, <<"$", "extends">>,
     <<"$", "root">>, <<"$", "schema">>}

\* validateReservedProperties on the root object, as superRefine reports it:
\* "Unknown reserved property" issues, which convertZodErrors turns into E011
RECURSIVE ZodReservedErrors(_, _)
ZodReservedErrors(entries, i) ==
    IF i > Len(entries) THEN <<>>
    ELSE (IF /\ StartsWith(entries[i].key, "$")
             /\ entries[i].key \notin KNOWN_RESERVED_PROPERTIES
          THEN <<Diag(E011, <<entries[i].key>>)>>
          ELSE <<>>)
         \o ZodReservedErrors(entries, i + 1)

\* reserved properties present on the root object, in the model's key order
RootProps(root) ==
    (IF HasType(root) THEN <<<<"$", "type">>>> ELSE <<>>)
    \o (IF HasValue(root) THEN <<<<"$", "value">>>> ELSE <<>>)
    \o (IF root.extends.kind # "absent" THEN <<<<"$", "extends">>>> ELSE <<>>)
    \o (IF root.deprecated.kind # "absent" THEN <<<<"$", "deprecated">>>> ELSE <<>>)
    \o root.unknown

convertZodErrors(root) ==
    LET props == RootProps(root)
        base == [i \in 1..Len(props) |-> Diag(E021, <<props[i]>>)]
                \o ZodEntryErrors(root.entries, 1)
    IN  IF Len(base) > 0 THEN base
        ELSE ZodReservedErrors(root.entries, 1) \o ZodNameErrors(root.entries, 1)

-----------------------------------------------------------------------------
(* Second pass: validateNode *)

\* the paths of the issues of TokenValueByType[type].safeParse(value), for a
\* value that is neither a string nor a {"$ref"} object
ValueIssues(type, v) ==
    IF ValueOkForType(type, v) THEN <<>>
    ELSE CASE type = "color" /\ v.kind = "color" -> <<<<<<"components">>>>>>
           [] type = "color" -> <<<<<<"colorSpace">>>>, <<<<"components">>>>>>
           [] type = "dimension" /\ v.kind = "dimension" -> <<<<<<"unit">>>>>>
           [] type = "dimension" -> <<<<<<"value">>>>, <<<<"unit">>>>>>
           [] OTHER -> <<<<>>>>

\* validateTokenValueType(value, type, path, context): the errors it pushes
validateTokenValueType(value, type, path) ==
    IF IsString(value)
    THEN IF CurlyBraceReferenceOk(value.chars) THEN <<>>
         ELSE <<Diag(E021, Append(path, <<"$", "value">>))>>
    ELSE IF value.kind = "ref"
    THEN IF JsonPointerOk(value.ref) THEN <<>>
         ELSE <<Diag(E021, Append(path, <<"$", "value">>))>>
    ELSE IF type = NoType THEN <<>>
    ELSE LET issues == ValueIssues(type, value)
         IN  [i \in 1..Len(issues) |->
                Diag(getErrorCodeForType(type),
                     Append(path, <<"$", "value">>) \o issues[i])]

\* isKnownReservedProperty(key)
isKnownReservedProperty(key) == key \in KNOWN_RESERVED_PROPERTIES

\* the keys of a node that are not among its modelled reserved properties:
\* the other "$" keys with a plain value, then the object-valued keys
OtherKeys(node) ==
    node.unknown \o [i \in 1..Len(node.entries) |-> node.entries[i].key]

\* the E011 errors for the unknown "$" keys of a node
RECURSIVE UnknownKeyErrors(_, _, _)
UnknownKeyErrors(keys, i, path) ==
    IF i > Len(keys) THEN <<>>
    ELSE (IF StartsWith(keys[i], "$") /\ ~isKnownReservedProperty(keys[i])
          THEN <<Diag(E011, Append(path, keys[i]))>>
          ELSE <<>>)
         \o UnknownKeyErrors(keys, i + 1, path)

UnknownPropErrors(node, path) == UnknownKeyErrors(OtherKeys(node), 1, path)

\* (mutant) the E020 is put at the path of the node
TypeErrorsAtNode(node, path) ==
    IF HasType(node) /\ ~TokenTypeOk(node.type)
    THEN <<Diag(E020, path)>> ELSE <<>>
\* the E020 for a $type that is no token type
TypeErrors(node, path) ==
    IF HasType(node) /\ ~TokenTypeOk(node.type)
    THEN <<Diag(E020, Append(path, <<"$", "type">>))>> ELSE <<>>

\* (mutant) the type of the ancestors is not inherited
CurrentTypeOwnOnly(node, inheritedType) ==
    IF HasType(node) /\ TokenTypeOk(node.type) THEN node.type ELSE NoType
\* the type a node hands to its value check and to its children: its own
\* $type when that is a token type, the inherited type otherwise
CurrentType(node, inheritedType) ==
    IF HasType(node) /\ TokenTypeOk(node.type) THEN node.type ELSE inheritedType

RECURSIVE validateNode(_, _, _, _)
RECURSIVE validateChildren(_, _, _, _, _)

\* validateNode(node, path, context, inheritedType): the context afterwards
validateNode(node, path, ctx, inheritedType) ==
    LET currentType == CurrentType(node, inheritedType)
        typeErrors == TypeErrors(node, path)
        c1 == [ctx EXCEPT !.errors = @ \o typeErrors \o UnknownPropErrors(node, path)]
    IN  IF HasValue(node)
        THEN LET tokenName == IF Len(path) > 0 THEN path[Len(path)] ELSE <<>>
                 nameErrors == IF Len(tokenName) > 0 /\ ~TokenNameOk(tokenName)
                               THEN <<Diag(E002, path)>> ELSE <<>>
             IN  [c1 EXCEPT
                    !.tokens = MapSet(@, Join(path, "."), node),
                    !.errors = @ \o nameErrors
                                 \o validateTokenValueType(node.value, currentType, path),
                    !.warnings = IF Truthy(node.deprecated)
                                 THEN Append(@, Warning(E021, path)) ELSE @]
        ELSE LET groupPath == Join(path, ".")
                 c2 == IF Len(groupPath) > 0
                       THEN [c1 EXCEPT !.groups = @ \cup {groupPath}] ELSE c1
             IN  validateChildren(node.entries, 1, path, c2, currentType)

\* the loop of validateNode over Object.entries(node), from entry i on
validateChildren(entries, i, path, ctx, currentType) ==
    IF i > Len(entries) THEN ctx
    ELSE LET key == entries[i].key
             nameErrors == IF TokenNameOk(key) THEN <<>>
                           ELSE <<Diag(E002, Append(path, key))>>
         IN  IF StartsWith(key, "$")
             THEN validateChildren(entries, i + 1, path, ctx, currentType)
             ELSE validateChildren(entries, i + 1, path,
                      validateNode(entries[i].node, Append(path, key),
                                   [ctx EXCEPT !.errors = @ \o nameErrors],
                                   currentType),
                      currentType)

-----------------------------------------------------------------------------
(* Input documents *)

\* names used in the generated documents
NamePool == <<"a", "b", "c", "d", "e">>
TokenName(i) == <<NamePool[i]>>
gName == <<"g">>
hName == <<"h">>
xName == <<"x">>
yName == <<"y">>
zName == <<"z">>
\* a name no document declares
mName == <<"m">>

\* the group g: two concrete color tokens
GroupG == Grp("color", Absent,
              <<Entry(xName, Tok(NoType, Color(3, 1))),
                Entry(yName, Tok(NoType, Color(3, 2)))>>)
\* the group h, extending g: overrides y, adds z
GroupH == Grp("color", Alias(<<gName>>),
              <<Entry(yName, Tok(NoType, Color(3, 3))),
                Entry(zName, Tok(NoType, Color(3, 4)))>>)

\* Alias graphs: NumTokens root tokens, each a concrete color or an alias of a
\* root token, of the token g.x, of the group g or of a missing path
GraphChoices ==
    {Tok("color", Color(3, 0)),
     Tok("color", Alias(<<gName>>)),
     Tok("color", Alias(<<gName, xName>>)),
     Tok("color", Alias(<<mName>>))}
    \cup {Tok("color", Alias(<<TokenName(j)>>)) : j \in 1..NumTokens}

\* Mixed values: two root tokens with typed concrete values, aliases across
\* types, composite values holding aliases, and JSON Pointer references
MixedChoices ==
    {Tok("color", Color(3, 0)),
     Tok("color", Color(2, 0)),
     Tok("dimension", Dim("px")),
     Tok("color", Alias(<<TokenName(1)>>)),
     Tok("color", Alias(<<TokenName(2)>>)),
     Tok("color", Alias(<<hName, xName>>)),
     Tok("shadow", Shadow(Color(3, 0), Dim("px"))),
     Tok("shadow", Shadow(Alias(<<mName>>), Dim("px"))),
     Tok("shadow", Shadow(Alias(<<gName>>), Dim("px"))),
     Tok("shadow", Shadow(Color(3, 0), Alias(<<TokenName(1)>>))),
     Tok("color", Pointer(<<TokenName(1), <<"$", "value">>>>)),
     Tok("color", Pointer(<<mName>>))}

\* the entries <<[a, f[1]], [b, f[2]], ...>>, or the same in reverse key order
TokenEntries(f, n, reversed) ==
    [i \in 1..n |->
        LET j == IF reversed THEN n + 1 - i ELSE i
        IN  Entry(TokenName(j), f[j])]

GraphDocs ==
    {Grp(NoType, Absent,
         TokenEntries(f, NumTokens, r) \o <<Entry(gName, GroupG)>>) :
        f \in [1..NumTokens -> GraphChoices], r \in BOOLEAN}

MixedDocs ==
    {Grp(NoType, Absent,
         TokenEntries(f, 2, FALSE)
         \o <<Entry(gName, GroupG), Entry(hName, GroupH)>>) :
        f \in [1..2 -> MixedChoices]}

\* the token a aliases the group g
GroupAliasDoc ==
    Grp(NoType, Absent,
        <<Entry(TokenName(1), Tok("color", Alias(<<gName>>))),
          Entry(gName, GroupG)>>)

\* Names: a node that has a grammatical or an ungrammatical name, a token or
\* a group, at depth 1..MaxNest, followed by a sibling that has an error of
\* its own (a color with two components, or an alias of a missing path)
kName == <<"k">>
nName == <<"n">>
NodeNames == {nName, <<"$", "x">>, <<"a", ".", "b">>, <<"a", "{", "b", "}">>, <<>>}
NamedNodes ==
    {Tok("color", Color(3, 0)),
     Grp(NoType, Absent, <<Entry(xName, Tok("color", Color(3, 1)))>>)}
LaterSiblings == {Tok("color", Color(2, 0)), Tok("color", Alias(<<mName>>))}

RECURSIVE Nested(_, _)
\* the entries, put d - 1 groups named g deep
Nested(entries, d) ==
    IF d <= 1 THEN entries
    ELSE <<Entry(gName, Grp(NoType, Absent, Nested(entries, d - 1)))>>

NameDocs ==
    {Grp(NoType, Absent, Nested(<<Entry(name, node), Entry(kName, sib)>>, d)) :
        name \in NodeNames, node \in NamedNodes, sib \in LaterSiblings,
        d \in 1..MaxNest}

\* a token with an unknown "$" property that holds a string
UnknownPropDocs ==
    {Grp(NoType, Absent,
         Nested(<<Entry(nName, Node("color", Color(3, 0), Absent, Absent,
                                    <<<<"$", "unknown">>>>, <<>>))>>, d)) :
        d \in 1..MaxNest}

\* Types: a token t in a group s in a group g, each with no $type, a token
\* type or a $type that is no token type; the token holds a color or a
\* dimension, well-formed or not, and any form of $deprecated
sName == <<"s">>
tName == <<"t">>
GroupTypes == {NoType, "color", "dimension", "bogus"}
SubgroupTypes == {NoType, "color", "bogus"}
OwnTypes == {NoType, "dimension", "bogus"}
TypedValues == {Color(3, 0), Color(2, 0), Dim("px"), Dim("furlong")}
DeprecatedValues ==
    {Absent, Bool(TRUE), Bool(FALSE), Str(<<"reason">>), Str(<<>>)}

TypeDocs ==
    {Grp(NoType, Absent,
       <<Entry(gName, Grp(gt, Absent,
          <<Entry(sName, Grp(st, Absent,
             <<Entry(tName, Node(tt, v, d, Absent, <<>>, <<>>))>>))>>))>>) :
        gt \in GroupTypes, st \in SubgroupTypes, tt \in OwnTypes,
        v \in TypedValues, d \in DeprecatedValues}

\* Strings: a token whose $value is a plain string, of a type declared on the
\* token or on its group
fName == <<"f">>
StringTypes == {"fontFamily", "fontWeight", "strokeStyle"}
PlainStrings == {<<"Arial">>, <<"bold">>, <<"dashed">>}
StringDocs ==
    {Grp(NoType, Absent, <<Entry(fName, Tok(ty, Str(str)))>>) :
        ty \in StringTypes, str \in PlainStrings}
    \cup {Grp(NoType, Absent,
              <<Entry(gName, Grp(ty, Absent,
                                 <<Entry(fName, Tok(NoType, Str(str)))>>))>>) :
            ty \in StringTypes, str \in PlainStrings}

\* Root tokens: the group g with a $root token and a token x, and a root
\* token a that holds a color or aliases g.$root or g.x
rootKey == <<"$", "root">>
RootDocs ==
    {Grp(NoType, Absent,
         <<Entry(gName, Grp("color", Absent,
                            <<Entry(rootKey, Tok(NoType, rv)),
                              Entry(xName, Tok(NoType, Color(3, 1)))>>)),
           Entry(TokenName(1), Tok("color", av))>>) :
        rv \in {Color(3, 0), Color(2, 0)},
        av \in {Color(3, 2), Alias(<<gName, rootKey>>), Alias(<<gName, xName>>)}}

\* Extensions: the groups g and h, each extending g, h or nothing
ExtendsChoices == {Absent, Alias(<<gName>>), Alias(<<hName>>)}
ExtendsDocs ==
    {Grp(NoType, Absent,
         <<Entry(gName, Grp("color", eg,
                            <<Entry(xName, Tok(NoType, Color(3, 1)))>>)),
           Entry(hName, Grp("color", eh,
                            <<Entry(yName, Tok(NoType, Color(3, 3)))>>))>>) :
        eg \in ExtendsChoices, eh \in ExtendsChoices}

\* Inputs of validate that are no plain object, and a text on which the
\* JSON.parse of validateJSON throws
NullInput == [kind |-> "null"]
UndefinedInput == [kind |-> "undefined"]
NumberInput == Num(420)
ArrayInput(items) == Arr(items)
MalformedText == [kind |-> "text"]
OtherInputs ==
    {NullInput, UndefinedInput, NumberInput, Str(<<"string">>),
     ArrayInput(<<>>), ArrayInput(<<Tok("color", Color(3, 0))>>),
     MalformedText}

\* Grammars: the token v, typed by itself or by its group g, holding a value
\* that meets or violates the grammar of one of the types with a code of
\* their own
vName == <<"v">>
CodedTypes ==
    {"color", "dimension", "fontWeight", "duration", "cubicBezier", "gradient",
     "border", "strokeStyle"}
GrammarValues ==
    {Color(3, 0), Color(2, 0), Dim("px"), Dim("furlong"), Dim("ms"),
     Num(4000), Num(5),
     Arr(<<Num(0), Num(-50), Num(10), Num(50)>>),
     Arr(<<Num(-1), Num(0), Num(5), Num(10)>>),
     Arr(<<Stop(Color(3, 0), Num(0)), Stop(Color(3, 1), Num(10))>>),
     Arr(<<Stop(Color(3, 0), Num(0))>>),
     Border(Color(3, 0), Dim("px"), Str(<<"solid">>)),
     Border(Color(3, 0), Dim("px"), Str(<<"wavy">>)),
     Str(<<"wavy">>)}
GrammarDocs ==
    {Grp(NoType, Absent, <<Entry(vName, Tok(ty, v))>>) :
        ty \in CodedTypes, v \in GrammarValues}
    \cup {Grp(NoType, Absent,
              <<Entry(gName, Grp(ty, Absent,
                                 <<Entry(vName, Tok(NoType, v))>>))>>) :
            ty \in CodedTypes, v \in GrammarValues}

\* Dotted keys: a node under the key "a.b" next to the group a with a child
\* b, in both key orders; each of the two nodes is a token or a group
abName == <<"a", ".", "b">>
DottedNodes ==
    {Tok("color", Color(3, 0)),
     Grp(NoType, Absent, <<Entry(xName, Tok("color", Color(3, 1)))>>)}
DottedDocs ==
    UNION {{Grp(NoType, Absent,
                <<Entry(abName, n1),
                  Entry(TokenName(1), Grp(NoType, Absent, <<Entry(TokenName(2), n2)>>))>>),
            Grp(NoType, Absent,
                <<Entry(TokenName(1), Grp(NoType, Absent, <<Entry(TokenName(2), n2)>>)),
                  Entry(abName, n1)>>)} :
             n1 \in DottedNodes, n2 \in DottedNodes}

StructDocs ==
    NameDocs \cup UnknownPropDocs \cup TypeDocs \cup StringDocs
    \cup RootDocs \cup ExtendsDocs \cup GrammarDocs \cup DottedDocs
    \cup {GroupAliasDoc}

-----------------------------------------------------------------------------
(* validate: the state machine *)

\* nothing has been returned yet
NoResult == [kind |-> "none"]

\* no call of validateTokenValue is under way
ApiIdle ==
    /\ apiValue = Absent
    /\ apiType = NoType
    /\ apiResult = NoResult

\* a ParseResult without tokens
EmptyParseResult == [colorGroups |-> <<>>, colorTokens |-> <<>>]

\* the visualiser has parsed nothing
VisIdle ==
    /\ visPc = "idle"
    /\ parseResult = EmptyParseResult

\* process.exit has not been called
NoExit == -1
\* the summary validateFiles starts with, for a list of n files
NewSummary(n) == [total |-> n, passed |-> 0, failed |-> 0, warnings |-> 0]

\* the command line tool is not running
CliIdle ==
    /\ cliPc = "idle"
    /\ files = <<>>
    /\ fileIdx = 1
    /\ summary = NewSummary(0)
    /\ exitCode = NoExit

\* the DropZone as it is constructed: no event has been delivered
DropIdle ==
    /\ dragCounter = 0
    /\ isDragging = FALSE
    /\ delivered = <<>>
    /\ loaded = <<>>

\* no call of validate is under way, whatever doc is
ContextIdle ==
    /\ pc = "idle"
    /\ errors = <<>>
    /\ warnings = <<>>
    /\ tokens = <<>>
    /\ groups = {}
    /\ visited = {}
    /\ inStack = {}
    /\ idx = 1
    /\ stack = <<>>
    /\ valid = FALSE
    /\ history = <<>>
    /\ entry = "none"
    /\ outcome = NoResult

\* no call of validate is under way and no document is at hand
CallIdle == doc = Absent /\ ContextIdle

\* a call of validate starts on a fresh context
CallStart ==
    /\ pc = "start"
    /\ errors = <<>>
    /\ warnings = <<>>
    /\ tokens = <<>>
    /\ groups = {}
    /\ visited = {}
    /\ inStack = {}
    /\ idx = 1
    /\ stack = <<>>
    /\ valid = FALSE
    /\ history = <<>>
    /\ outcome = NoResult

Init ==
    /\ ApiIdle
    /\ VisIdle
    /\ CliIdle
    /\ DropIdle
    /\ doc \in GraphDocs \cup MixedDocs \cup StructDocs \cup OtherInputs
    /\ entry = "validate"
    /\ CallStart

\* typeof data === "object" && data !== null
IsObjectLike(data) == data.kind \in {"object", "array"}

\* the own enumerable properties of an object-like input, as validateNode
\* reads them: an array has its indices for keys
IndexKey(i) == <<<<"0", "1", "2", "3">>[i]>>
AsNode(data) ==
    IF data.kind = "array"
    THEN Grp(NoType, Absent,
             [i \in 1..Len(data.items) |-> Entry(IndexKey(i), data.items[i])])
    ELSE data

\* the errors of the first pass: for an input that is no plain object the
\* schema has one issue, at the root, which is none of the special cases of
\* convertZodErrors
SchemaErrors(data) ==
    IF data.kind = "object" THEN convertZodErrors(data)
    ELSE <<Diag(E021, <<>>)>>

\* (mutant) a warning makes the result invalid
ResultValidNoWarnings(errs, warns) == Len(errs) = 0 /\ Len(warns) = 0
\* valid: context.errors.length === 0
ResultValid(errs, warns) == Len(errs) = 0

\* validateJSON on a text that JSON.parse rejects: the result is returned
\* at once
ValidateJSONFails ==
    /\ pc = "start"
    /\ doc.kind = "text"
    /\ errors' = <<Diag(E001, <<>>)>>
    /\ warnings' = <<>>
    /\ tokens' = <<>>
    /\ groups' = {}
    /\ valid' = FALSE
    /\ pc' = "done"
    /\ UNCHANGED <<doc, visited, inStack, idx, stack>>
    /\ UNCHANGED <<callerVars, otherVars>>

\* (mutant) the set of an earlier call is used again
NewSetKeepsOld(old) == old
\* new Set<string>(): the set a call of validateReferences starts with
NewSet(old) == {}

\* validate, first and second pass; validateReferences starts with empty sets
Validate ==
    /\ pc = "start"
    /\ doc.kind # "text"
    /\ LET ctx0 == [EmptyContext EXCEPT !.errors = SchemaErrors(doc)]
           ctx == IF IsObjectLike(doc)
                  THEN validateNode(AsNode(doc), <<>>, ctx0, NoType)
                  ELSE ctx0
       IN  /\ errors' = ctx.errors
           /\ warnings' = ctx.warnings
           /\ tokens' = ctx.tokens
           /\ groups' = ctx.groups
    /\ visited' = NewSet(visited)
    /\ inStack' = NewSet(inStack)
    /\ idx' = 1
    /\ pc' = "refs"
    /\ UNCHANGED <<doc, stack, valid>>
    /\ UNCHANGED <<callerVars, otherVars>>

\* typeof v === "string" && v.startsWith("{") && v.endsWith("}")
IsBracedString(v) ==
    IsString(v) /\ StartsWith(v.chars, "{") /\ EndsWith(v.chars, "}")

\* inStack.has(ref)
InStackHas(s, ref) == ref \in s
\* (mutant) the visited check is left out
VisitedHasNever(s, ref) == FALSE
\* visited.has(ref)
VisitedHas(s, ref) == ref \in s
\* (mutant) the reference is not recorded
SetAddNothing(s, ref) == s
\* visited.add(ref); inStack.add(ref)
SetAdd(s, ref) == s \cup {ref}
\* (mutant) the reference stays on the stack after its resolution
SetDeleteNothing(s, ref) == s
\* inStack.delete(ref)
SetDelete(s, ref) == s \ {ref}

Frame(ref, fromPath, at) == [ref |-> ref, fromPath |-> fromPath, at |-> at]
Top == stack[Len(stack)]
Pop == SubSeq(stack, 1, Len(stack) - 1)

\* the for loop of validateReferences is at a token that is no braced string
LoopSkip ==
    /\ pc = "refs" /\ stack = <<>> /\ idx <= Len(tokens)
    /\ ~IsBracedString(tokens[idx].val.value)
    /\ idx' = idx + 1
    /\ UNCHANGED <<doc, pc, errors, warnings, tokens, groups, visited, inStack, stack, valid>>
    /\ UNCHANGED <<callerVars, otherVars>>

\* the for loop calls resolveRef(value, tokenPath)
LoopCall ==
    /\ pc = "refs" /\ stack = <<>> /\ idx <= Len(tokens)
    /\ IsBracedString(tokens[idx].val.value)
    /\ stack' = <<Frame(tokens[idx].val.value.chars, tokens[idx].key, "entry")>>
    /\ idx' = idx + 1
    /\ UNCHANGED <<doc, pc, errors, warnings, tokens, groups, visited, inStack, valid>>
    /\ UNCHANGED <<callerVars, otherVars>>

AtEntry == pc = "refs" /\ stack # <<>> /\ Top.at = "entry"
Fresh == AtEntry /\ ~InStackHas(inStack, Top.ref) /\ ~VisitedHas(visited, Top.ref)

\* resolveRef: ref is on the stack
ResolveCircular ==
    /\ AtEntry
    /\ InStackHas(inStack, Top.ref)
    /\ errors' = Append(errors, Diag(E031, Split(Top.fromPath, ".")))
    /\ stack' = Pop
    /\ UNCHANGED <<doc, pc, warnings, tokens, groups, visited, inStack, idx, valid>>
    /\ UNCHANGED <<callerVars, otherVars>>

\* resolveRef: ref was resolved before
ResolveVisited ==
    /\ AtEntry
    /\ ~InStackHas(inStack, Top.ref)
    /\ VisitedHas(visited, Top.ref)
    /\ stack' = Pop
    /\ UNCHANGED <<doc, pc, errors, warnings, tokens, groups, visited, inStack, idx, valid>>
    /\ UNCHANGED <<callerVars, otherVars>>

\* resolveRef: ref names a group
ResolveGroup ==
    /\ Fresh
    /\ ~MapHas(tokens, StripBraces(Top.ref))
    /\ StripBraces(Top.ref) \in groups
    /\ visited' = SetAdd(visited, Top.ref)
    /\ inStack' = SetDelete(SetAdd(inStack, Top.ref), Top.ref)
    /\ errors' = Append(errors, Diag(E032, Split(Top.fromPath, ".")))
    /\ stack' = Pop
    /\ UNCHANGED <<doc, pc, warnings, tokens, groups, idx, valid>>
    /\ UNCHANGED <<callerVars, otherVars>>

\* resolveRef: ref names neither a token nor a group
ResolveUnresolved ==
    /\ Fresh
    /\ ~MapHas(tokens, StripBraces(Top.ref))
    /\ StripBraces(Top.ref) \notin groups
    /\ visited' = SetAdd(visited, Top.ref)
    /\ inStack' = SetDelete(SetAdd(inStack, Top.ref), Top.ref)
    /\ errors' = Append(errors, Diag(E030, Split(Top.fromPath, ".")))
    /\ stack' = Pop
    /\ UNCHANGED <<doc, pc, warnings, tokens, groups, idx, valid>>
    /\ UNCHANGED <<callerVars, otherVars>>

\* resolveRef: ref names a token whose value is no braced string
ResolveLeaf ==
    /\ Fresh
    /\ MapHas(tokens, StripBraces(Top.ref))
    /\ ~IsBracedString(MapGet(tokens, StripBraces(Top.ref)).value)
    /\ visited' = SetAdd(visited, Top.ref)
    /\ inStack' = SetDelete(SetAdd(inStack, Top.ref), Top.ref)
    /\ stack' = Pop
    /\ UNCHANGED <<doc, pc, errors, warnings, tokens, groups, idx, valid>>
    /\ UNCHANGED <<callerVars, otherVars>>

\* resolveRef: ref names a token that is an alias itself: the nested call
ResolveNested ==
    /\ Fresh
    /\ Len(stack) < MaxDepth
    /\ MapHas(tokens, StripBraces(Top.ref))
    /\ IsBracedString(MapGet(tokens, StripBraces(Top.ref)).value)
    /\ visited' = SetAdd(visited, Top.ref)
    /\ inStack' = SetAdd(inStack, Top.ref)
    /\ stack' = Append([stack EXCEPT ![Len(stack)].at = "ret"],
                       Frame(MapGet(tokens, StripBraces(Top.ref)).value.chars,
                             StripBraces(Top.ref), "entry"))
    /\ UNCHANGED <<doc, pc, errors, warnings, tokens, groups, idx, valid>>
    /\ UNCHANGED <<callerVars, otherVars>>

\* resolveRef: the nested call returned
ResolveReturn ==
    /\ pc = "refs" /\ stack # <<>> /\ Top.at = "ret"
    /\ inStack' = SetDelete(inStack, Top.ref)
    /\ stack' = Pop
    /\ UNCHANGED <<doc, pc, errors, warnings, tokens, groups, visited, idx, valid>>
    /\ UNCHANGED <<callerVars, otherVars>>

\* validate returns its result
Finish ==
    /\ pc = "refs" /\ stack = <<>> /\ idx > Len(tokens)
    /\ valid' = ResultValid(errors, warnings)
    /\ pc' = "done"
    /\ UNCHANGED <<doc, errors, warnings, tokens, groups, visited, inStack, idx, stack>>
    /\ UNCHANGED <<callerVars, otherVars>>

Next ==
    \/ ValidateJSONFails
    \/ Validate
    \/ LoopSkip
    \/ LoopCall
    \/ ResolveCircular
    \/ ResolveVisited
    \/ ResolveGroup
    \/ ResolveUnresolved
    \/ ResolveLeaf
    \/ ResolveNested
    \/ ResolveReturn
    \/ Finish

Spec == Init /\ [][Next]_vars

\* the number of calls of validate in a row
MaxCalls == 3
\* the value validate returned
Result ==
    [data |-> doc, valid |-> valid, errors |-> errors, warnings |-> warnings,
     tokens |-> tokens, groups |-> groups]
\* the inputs of calls made between two calls on the same input
BetweenInputs ==
    {MalformedText,
     Grp(NoType, Absent,
         <<Entry(TokenName(1), Tok("color", Alias(<<TokenName(2)>>))),
           Entry(TokenName(2), Tok("color", Alias(<<TokenName(1)>>)))>>)}

\* the caller keeps the result and calls validate again, on the same or on
\* another instance (an instance has no fields), on an earlier input or on
\* another one
ValidateAgain ==
    /\ pc = "done"
    /\ Len(history) < MaxCalls - 1
    /\ history' = Append(history, Result)
    /\ doc' \in {doc} \cup {history[i].data : i \in 1..Len(history)} \cup BetweenInputs
    /\ pc' = "start"
    /\ UNCHANGED <<errors, warnings, tokens, groups, visited, inStack, idx, stack, valid>>
    /\ UNCHANGED <<entry, outcome, otherVars>>

\* validate called again and again
RepeatInit ==
    /\ Init
    /\ doc \in MixedDocs \cup RootDocs \cup ExtendsDocs \cup OtherInputs
                \cup {GroupAliasDoc}
RepeatNext == Next \/ ValidateAgain
RepeatSpec == RepeatInit /\ [][RepeatNext]_vars

\* validate runs to completion: it is synchronous and nothing else is scheduled
FairSpec == Spec /\ WF_vars(Next)

-----------------------------------------------------------------------------
(* The convenience functions isValidTokenFile and parseTokenFile: each      *)
(* calls validateTokenFile(data), that is validate on a new validator, and  *)
(* then returns or throws.                                                  *)

\* the message of a diagnostic, a text fixed where the diagnostic is pushed
MessageOf(e) == <<"message">>

\* (mutant) the path is left out of the line
FormatErrorNoPath(e) ==
    <<"[", e.code, "]", " ">> \o <<":", " ">> \o MessageOf(e)

\* `[${e.code}] ${e.path.join(".")}: ${e.message}`
FormatError(e) ==
    <<"[", e.code, "]", " ">> \o Join(e.path, ".") \o <<":", " ">> \o MessageOf(e)

\* `Invalid token file:\n${errorMessages.join("\n")}`
ErrorText(errs) ==
    <<"Invalid token file", ":", "\n">>
    \o Join([i \in 1..Len(errs) |-> FormatError(errs[i])], "\n")

Returned(value) == [kind |-> "returned", value |-> value]
Thrown(message) == [kind |-> "thrown", message |-> message]

\* isValidTokenFile(data), once validateTokenFile has returned
IsValidTokenFileReturns ==
    /\ entry = "isValidTokenFile"
    /\ pc = "done"
    /\ outcome = NoResult
    /\ outcome' = Returned(Bool(valid))
    /\ UNCHANGED <<callVars, history, entry, otherVars>>

\* parseTokenFile(data), once validateTokenFile has returned
ParseTokenFileReturns ==
    /\ entry = "parseTokenFile"
    /\ pc = "done"
    /\ outcome = NoResult
    /\ outcome' = IF ~valid THEN Thrown(ErrorText(errors)) ELSE Returned(doc)
    /\ UNCHANGED <<callVars, history, entry, otherVars>>

\* data is a value, not a JSON text
ParseInit ==
    /\ ApiIdle
    /\ VisIdle
    /\ CliIdle
    /\ DropIdle
    /\ doc \in MixedDocs \cup StructDocs \cup (OtherInputs \ {MalformedText})
    /\ entry \in {"isValidTokenFile", "parseTokenFile"}
    /\ CallStart

ParseNext ==
    \/ Validate
    \/ LoopSkip
    \/ LoopCall
    \/ ResolveCircular
    \/ ResolveVisited
    \/ ResolveGroup
    \/ ResolveUnresolved
    \/ ResolveLeaf
    \/ ResolveNested
    \/ ResolveReturn
    \/ Finish
    \/ IsValidTokenFileReturns
    \/ ParseTokenFileReturns

ParseSpec == ParseInit /\ [][ParseNext]_vars

-----------------------------------------------------------------------------
(* validateTokenValue(value, type): one value against one type's schema *)

\* the largest length of the arrays that are not four entries long
MaxItems == 5

\* the entries of the four-entry arrays: numbers in tenths and a string
CubicEntries ==
    {Num(-50), Num(-1), Num(0), Num(5), Num(10), Num(11), Num(50), Str(<<"x">>)}

ApiValues ==
    {Arr(f) : f \in [1..4 -> CubicEntries]}
    \cup {Arr([i \in 1..n |-> Num(0)]) : n \in 0..MaxItems}
    \cup {Num(0), Str(<<"x">>), NullInput, Color(3, 0)}

\* two keys of TokenValueByType and a string that is none
ApiTypes == {"cubicBezier", "number", "bezier"}

\* validateTokenValue(value, type)
validateTokenValue(value, type) ==
    IF type \notin TOKEN_TYPES
    THEN [kind |-> "result", success |-> FALSE]
    ELSE [kind |-> "result", success |-> ValueOkForType(type, value)]

ValueInit ==
    /\ CallIdle
    /\ VisIdle
    /\ CliIdle
    /\ DropIdle
    /\ apiValue \in ApiValues
    /\ apiType \in ApiTypes
    /\ apiResult = NoResult

ValidateTokenValue ==
    /\ apiResult = NoResult
    /\ apiResult' = validateTokenValue(apiValue, apiType)
    /\ UNCHANGED <<apiValue, apiType, callVars, callerVars, visVars, cliVars, dropVars>>

ValueNext == ValidateTokenValue

ValueSpec == ValueInit /\ [][ValueNext]_vars

-----------------------------------------------------------------------------
(* The visualiser's token parser (useTokenParser.ts): parseTokenObject on  *)
(* a document lists its color tokens.                                       *)

\* isColorValue(value): an object with a colorSpace string and at least
\* three components
isColorValue(v) == v.kind = "color" /\ v.comps >= 3

\* isToken(obj)
isToken(obj) == HasValue(obj)

RECURSIVE extractColorTokens(_, _, _)
RECURSIVE extractEntries(_, _, _, _, _)

\* extractColorTokens(obj, parentPath, inheritedType)
extractColorTokens(obj, parentPath, inheritedType) ==
    LET currentType == IF obj.type # NoType THEN obj.type ELSE inheritedType
    IN  extractEntries(obj.entries, 1, parentPath, currentType,
                       [tokens |-> <<>>, groups |-> <<>>])

\* the loop of extractColorTokens over Object.entries(obj), from entry i on
extractEntries(entries, i, parentPath, currentType, acc) ==
    IF i > Len(entries) THEN acc
    ELSE LET key == entries[i].key
             value == entries[i].node
             currentPath == IF Len(parentPath) > 0
                            THEN parentPath \o <<".">> \o key ELSE key
             isColorGroup == currentType = "color"
         IN  IF StartsWith(key, "$")
             THEN extractEntries(entries, i + 1, parentPath, currentType, acc)
             ELSE IF isToken(value)
             THEN extractEntries(entries, i + 1, parentPath, currentType,
                    IF isColorGroup /\ isColorValue(value.value)
                    THEN [acc EXCEPT !.tokens =
                            Append(@, [path |-> currentPath, name |-> key,
                                       value |-> value.value,
                                       deprecated |-> value.deprecated])]
                    ELSE acc)
             ELSE LET nested == extractColorTokens(value, currentPath, currentType)
                  IN  extractEntries(entries, i + 1, parentPath, currentType,
                        IF Len(nested.tokens) > 0 \/ Len(nested.groups) > 0
                        THEN [acc EXCEPT !.groups =
                                Append(@, [path |-> currentPath, name |-> key,
                                           tokens |-> nested.tokens,
                                           groups |-> nested.groups])]
                        ELSE acc)

RECURSIVE flattenColorTokens(_)
\* flattenColorTokens(groups)
flattenColorTokens(grps) ==
    IF Len(grps) = 0 THEN <<>>
    ELSE grps[1].tokens \o flattenColorTokens(grps[1].groups)
         \o flattenColorTokens(Tail(grps))

\* parseTokenObject(tokens)
parseTokenObject(obj) ==
    LET r == extractColorTokens(obj, <<>>, NoType)
    IN  [colorGroups |-> r.groups,
         colorTokens |-> r.tokens \o flattenColorTokens(r.groups)]

\* Typed tokens: the token t at the root or in the group g, each with no
\* $type, color, dimension or a $type that is no token type
VisTypes == {NoType, "color", "dimension", "bogus"}
VisValues == {Color(3, 0), Color(2, 0), Dim("px"), Alias(<<mName>>)}
VisDocs ==
    {Grp(NoType, Absent, <<Entry(tName, Tok(tt, v))>>) :
        tt \in VisTypes, v \in VisValues}
    \cup {Grp(NoType, Absent,
              <<Entry(gName, Grp(gt, Absent, <<Entry(tName, Tok(tt, v))>>))>>) :
            gt \in VisTypes, tt \in VisTypes, v \in VisValues}
    \cup TypeDocs

VisInit ==
    /\ ApiIdle
    /\ CliIdle
    /\ DropIdle
    /\ doc \in VisDocs
    /\ ContextIdle
    /\ visPc = "ready"
    /\ parseResult = EmptyParseResult

ParseTokenObject ==
    /\ visPc = "ready"
    /\ parseResult' = parseTokenObject(doc)
    /\ visPc' = "done"
    /\ UNCHANGED <<callVars, callerVars, apiVars, cliVars, dropVars>>

VisNext == ParseTokenObject

VisSpec == VisInit /\ [][VisNext]_vars

-----------------------------------------------------------------------------
(* The command line tool (packages/cli/index.ts), without --watch: main    *)
(* resolves its paths to filesToValidate, validateFiles goes through them  *)
(* and main exits.                                                          *)

\* the largest number of files in filesToValidate
MaxFiles == 3

\* what validateFile(filePath) returns: null when readFileSync throws, else
\* the result of validateTokenJSON(content), of which validateFiles reads
\* valid and warnings.length
Unreadable == [read |-> FALSE]
FileResult(v, w) == [read |-> TRUE, valid |-> v, warnings |-> w]
FileKinds ==
    {Unreadable, FileResult(TRUE, 0), FileResult(TRUE, 1), FileResult(FALSE, 0)}

\* validateFile(filePath)
validateFile(file) == IF file.read THEN file ELSE [null |-> TRUE]

\* (mutant) a file that cannot be read is left out of the count
TallyReadOnly(sum, file) ==
    LET result == validateFile(file)
    IN  IF file.read
        THEN [sum EXCEPT
                !.passed = IF result.valid THEN @ + 1 ELSE @,
                !.failed = IF result.valid THEN @ ELSE @ + 1,
                !.warnings = @ + result.warnings]
        ELSE sum

\* the body of the for loop of validateFiles
Tally(sum, file) ==
    LET result == validateFile(file)
    IN  IF file.read
        THEN [sum EXCEPT
                !.passed = IF result.valid THEN @ + 1 ELSE @,
                !.failed = IF result.valid THEN @ ELSE @ + 1,
                !.warnings = @ + result.warnings]
        ELSE [sum EXCEPT !.failed = @ + 1]

CliInit ==
    /\ ApiIdle
    /\ VisIdle
    /\ DropIdle
    /\ CallIdle
    /\ cliPc = "main"
    /\ files \in UNION {[1..n -> FileKinds] : n \in 0..MaxFiles}
    /\ fileIdx = 1
    /\ summary = NewSummary(0)
    /\ exitCode = NoExit

\* main: filesToValidate.length === 0
ExitNoFiles ==
    /\ cliPc = "main"
    /\ Len(files) = 0
    /\ exitCode' = 1
    /\ cliPc' = "exited"
    /\ UNCHANGED <<files, fileIdx, summary>>
    /\ UNCHANGED <<callVars, callerVars, apiVars, visVars, dropVars>>

\* main calls validateFiles(filesToValidate), which sets up its summary
ValidateFilesStart ==
    /\ cliPc = "main"
    /\ Len(files) > 0
    /\ summary' = NewSummary(Len(files))
    /\ fileIdx' = 1
    /\ cliPc' = "files"
    /\ UNCHANGED <<files, exitCode>>
    /\ UNCHANGED <<callVars, callerVars, apiVars, visVars, dropVars>>

\* validateFiles: one turn of the for loop
ValidateFilesStep ==
    /\ cliPc = "files"
    /\ fileIdx <= Len(files)
    /\ summary' = Tally(summary, files[fileIdx])
    /\ fileIdx' = fileIdx + 1
    /\ UNCHANGED <<cliPc, files, exitCode>>
    /\ UNCHANGED <<callVars, callerVars, apiVars, visVars, dropVars>>

\* validateFiles returns; main prints the summary and exits
ExitWithSummary ==
    /\ cliPc = "files"
    /\ fileIdx > Len(files)
    /\ exitCode' = IF summary.failed > 0 THEN 1 ELSE 0
    /\ cliPc' = "exited"
    /\ UNCHANGED <<files, fileIdx, summary>>
    /\ UNCHANGED <<callVars, callerVars, apiVars, visVars, dropVars>>

CliNext ==
    \/ ExitNoFiles
    \/ ValidateFilesStart
    \/ ValidateFilesStep
    \/ ExitWithSummary

CliSpec == CliInit /\ [][CliNext]_vars

-----------------------------------------------------------------------------
(* The DropZone component (DropZone.tsx): its four listeners on document.  *)

\* the largest number of events delivered
MaxEvents == 4

\* e.dataTransfer.files of a drop: no file, or a first file with its type
\* and name
NoFile == [kind |-> "none"]
File(type, name) == [kind |-> "file", type |-> type, name |-> name]
DroppedFiles ==
    {NoFile,
     File("application/json", <<"tokens", ".json">>),
     File("", <<"tokens", ".json">>),
     File("text/plain", <<"notes", ".txt">>)}

\* file.type === "application/json" || file.name.endsWith(".json")
IsJsonFile(file) == file.type = "application/json" \/ EndsWith(file.name, ".json")

DragEnterEvent(hasFiles) == [type |-> "dragenter", hasFiles |-> hasFiles]
DragLeaveEvent == [type |-> "dragleave"]
DragOverEvent == [type |-> "dragover"]
DropEvent(file) == [type |-> "drop", file |-> file]

DropInit ==
    /\ ApiIdle
    /\ VisIdle
    /\ CliIdle
    /\ CallIdle
    /\ DropIdle

\* handleDragEnter(e); hasFiles is e.dataTransfer?.types.includes("Files")
HandleDragEnter ==
    /\ Len(delivered) < MaxEvents
    /\ \E hasFiles \in BOOLEAN :
          /\ delivered' = Append(delivered, DragEnterEvent(hasFiles))
          /\ isDragging' = IF hasFiles THEN TRUE ELSE isDragging
    /\ dragCounter' = dragCounter + 1
    /\ UNCHANGED loaded
    /\ UNCHANGED <<callVars, callerVars, apiVars, visVars, cliVars>>

\* handleDragLeave(e)
HandleDragLeave ==
    /\ Len(delivered) < MaxEvents
    /\ delivered' = Append(delivered, DragLeaveEvent)
    /\ dragCounter' = dragCounter - 1
    /\ isDragging' = IF dragCounter' = 0 THEN FALSE ELSE isDragging
    /\ UNCHANGED loaded
    /\ UNCHANGED <<callVars, callerVars, apiVars, visVars, cliVars>>

\* handleDragOver(e)
HandleDragOver ==
    /\ Len(delivered) < MaxEvents
    /\ delivered' = Append(delivered, DragOverEvent)
    /\ UNCHANGED <<dragCounter, isDragging, loaded>>
    /\ UNCHANGED <<callVars, callerVars, apiVars, visVars, cliVars>>

\* handleDrop(e)
HandleDrop ==
    /\ Len(delivered) < MaxEvents
    /\ \E file \in DroppedFiles :
          /\ delivered' = Append(delivered, DropEvent(file))
          /\ loaded' = IF file # NoFile /\ IsJsonFile(file)
                        THEN Append(loaded, file) ELSE loaded
    /\ dragCounter' = 0
    /\ isDragging' = FALSE
    /\ UNCHANGED <<callVars, callerVars, apiVars, visVars, cliVars>>

DropNext ==
    \/ HandleDragEnter
    \/ HandleDragLeave
    \/ HandleDragOver
    \/ HandleDrop

DropSpec == DropInit /\ [][DropNext]_vars

TypeOK ==
    /\ pc \in {"start", "refs", "done", "idle"}
    /\ pc = "refs" => idx \in 1..(Len(tokens) + 1)
    /\ Len(stack) <= MaxDepth
    /\ valid \in BOOLEAN

-----------------------------------------------------------------------------
(* The document as the specification sees it: its token and group nodes    *)
(* and the graph of its top-level curly-brace aliases.                     *)

RECURSIVE NodesUnder(_, _)
\* every node of the document with its path (a sequence of names)
NodesUnder(node, path) ==
    {[path |-> path, node |-> node]}
    \cup (IF HasValue(node) THEN {}
          ELSE UNION {NodesUnder(node.entries[i].node,
                                 Append(path, node.entries[i].key)) :
                        i \in {j \in 1..Len(node.entries) :
                                  \/ ~StartsWith(node.entries[j].key, "$")
                                  \/ node.entries[j].key = <<"$", "root">>}})

DocNodes == IF doc.kind = "object" THEN NodesUnder(doc, <<>>) ELSE {}
DocTokens == {n \in DocNodes : HasValue(n.node)}
DocGroups == {n \in DocNodes : ~HasValue(n.node) /\ n.path # <<>>}
DocTokenPaths == {n.path : n \in DocTokens}
DocGroupPaths == {n.path : n \in DocGroups}
TokenAt(p) == (CHOOSE n \in DocTokens : n.path = p).node
GroupAt(p) == (CHOOSE n \in DocNodes : n.path = p).node

\* v is a curly-brace alias; the path it names
IsAlias(v) == IsString(v) /\ CurlyBraceReferenceOk(v.chars)
AliasPath(v) == Split(SubSeq(v.chars, 2, Len(v.chars) - 1), ".")

\* p is a token whose $value is an alias of the token q
AliasEdge(p, q) ==
    /\ p \in DocTokenPaths /\ q \in DocTokenPaths
    /\ IsAlias(TokenAt(p).value)
    /\ AliasPath(TokenAt(p).value) = q

RECURSIVE ReachIn(_, _, _)
\* q is reached from p by following between 1 and n alias edges
ReachIn(p, q, n) ==
    /\ n >= 1
    /\ \E r \in DocTokenPaths :
          AliasEdge(p, r) /\ (r = q \/ ReachIn(r, q, n - 1))

Reaches(p, q) == ReachIn(p, q, Cardinality(DocTokenPaths))
OnCycle(p) == Reaches(p, p)
CycleOf(p) == {q \in DocTokenPaths : Reaches(p, q)}
\* the distinct cycles of the alias graph, each as the set of its tokens
Cycles == {CycleOf(p) : p \in {q \in DocTokenPaths : OnCycle(q)}}

\* the end of the alias chain that starts at the token p (p itself when p is
\* no alias), when the chain runs through tokens only and meets no cycle
RECURSIVE ChainEndIn(_, _)
ChainEndIn(p, n) ==
    IF n = 0 \/ ~IsAlias(TokenAt(p).value)
       \/ AliasPath(TokenAt(p).value) \notin DocTokenPaths
    THEN p
    ELSE ChainEndIn(AliasPath(TokenAt(p).value), n - 1)
ChainEnd(p) == ChainEndIn(p, Cardinality(DocTokenPaths))

\* the number of diagnostics with this code in errors
CountCode(code) == Cardinality({i \in 1..Len(errors) : errors[i].code = code})
HasError(code, path) ==
    \E i \in 1..Len(errors) : errors[i].code = code /\ errors[i].path = path

-----------------------------------------------------------------------------
(* Claims *)

\* C1: when the alias graph of the document contains a cycle, validate
\* reports exactly one E031 per distinct cycle, whatever the key order.
C1_OneE031PerCycle ==
    (pc = "done" /\ Cycles # {}) => CountCode(E031) = Cardinality(Cycles)

\* C1 witness: a finished run over a document with a two-token cycle and a
\* token outside the cycle that leads into it, with one E031 reported.
C1_Witness ==
    /\ pc = "done"
    /\ \E c \in Cycles : Cardinality(c) = 2
    /\ \E p \in DocTokenPaths : ~OnCycle(p) /\ \E q \in DocTokenPaths : OnCycle(q) /\ Reaches(p, q)
    /\ CountCode(E031) = 1

\* C2: validate terminates for every document, whatever its alias graph.
C2_Terminates == <>(pc = "done")

\* C2 witness: validate has returned for a document whose alias graph has a
\* cycle of three tokens.
C2_Witness ==
    /\ pc = "done"
    /\ \E c \in Cycles : Cardinality(c) >= 3

\* every alias of the document, top-level or inside a composite value
AliasesOf(v) ==
    IF v.kind = "string" THEN (IF IsAlias(v) THEN {v} ELSE {})
    ELSE IF v.kind = "shadow"
    THEN {f \in {v.color, v.offsetX, v.offsetY, v.blur} : IsAlias(f)}
    ELSE {}
\* every string written in braces, top-level or inside a composite value
BracedOf(v) ==
    IF v.kind = "string" THEN (IF IsBracedString(v) THEN {v} ELSE {})
    ELSE IF v.kind = "shadow"
    THEN {f \in {v.color, v.offsetX, v.offsetY, v.blur} : IsBracedString(f)}
    ELSE {}
\* every string in braces is an alias by the grammar and names a token
AllAliasesTargetTokens ==
    \A n \in DocTokens : \A v \in BracedOf(n.node.value) :
        IsAlias(v) /\ AliasPath(v) \in DocTokenPaths

\* C3: when every alias targets an existing token and the alias graph is
\* acyclic, validate reports no E030, E031 or E032.
C3_AcyclicNoReferenceError ==
    (pc = "done" /\ AllAliasesTargetTokens /\ Cycles = {}) =>
        \A i \in 1..Len(errors) : errors[i].code \notin {E030, E031, E032}

\* C3 witness: a finished run over an acyclic document in which two tokens
\* alias the same target and one chain has two alias steps.
C3_Witness ==
    /\ pc = "done" /\ AllAliasesTargetTokens /\ Cycles = {}
    /\ \E p, q \in DocTokenPaths : p # q /\ \E r \in DocTokenPaths :
          AliasEdge(p, r) /\ AliasEdge(q, r)
    /\ \E p, q, r \in DocTokenPaths : AliasEdge(p, q) /\ AliasEdge(q, r)

\* the value the engine exposes for the token at path p: result.tokens.get(p).$value
Exposed(p) == MapGet(tokens, Join(p, ".")).value
\* a value that is neither an alias nor a pointer
IsConcrete(v) == v.kind \notin {"absent", "string", "ref"}

\* C4: resolving the first token of an acyclic alias chain that ends at a
\* token holding a concrete value yields that concrete value.
C4_ChainResolvesToConcrete ==
    pc = "done" =>
        \A p \in DocTokenPaths :
            (/\ IsAlias(TokenAt(p).value)
             /\ IsConcrete(TokenAt(ChainEnd(p)).value)
             /\ MapHas(tokens, Join(p, "."))) =>
                Exposed(p) = TokenAt(ChainEnd(p)).value

\* C5: every token whose $value aliases a group gets an E032 at its own
\* path, and no E030.
C5_GroupAliasYieldsE032 ==
    pc = "done" =>
        \A p \in DocTokenPaths :
            (IsAlias(TokenAt(p).value) /\ AliasPath(TokenAt(p).value) \in DocGroupPaths) =>
                HasError(E032, p) /\ ~HasError(E030, p)

\* C6: every token whose $value aliases a path that is neither a token nor
\* a group gets an E030 at its own path.
C6_MissingAliasYieldsE030 ==
    pc = "done" =>
        \A p \in DocTokenPaths :
            (/\ IsAlias(TokenAt(p).value)
             /\ AliasPath(TokenAt(p).value) \notin DocTokenPaths \cup DocGroupPaths) =>
                HasError(E030, p)

\* the aliases held by the sub-fields of a composite value
NestedAliases(v) == IF v.kind = "shadow" THEN AliasesOf(v) ELSE {}

\* C7: an alias inside a composite $value that targets a missing path, a
\* group, or the token holding it (a cycle) produces E030, E032, E031.
C7_NestedAliasDiagnosed ==
    pc = "done" =>
        \A p \in DocTokenPaths : \A v \in NestedAliases(TokenAt(p).value) :
            /\ AliasPath(v) \notin DocTokenPaths \cup DocGroupPaths => CountCode(E030) >= 1
            /\ AliasPath(v) \in DocGroupPaths => CountCode(E032) >= 1
            /\ AliasPath(v) = p => CountCode(E031) >= 1

\* the effective type of the token at path p: its own valid $type, else the
\* one of the nearest ancestor group that declares a valid one
RECURSIVE EffectiveType(_)
EffectiveType(p) ==
    LET t == GroupAt(p).type
    IN  IF TokenTypeOk(t) THEN t
        ELSE IF p = <<>> THEN NoType
        ELSE EffectiveType(SubSeq(p, 1, Len(p) - 1))

\* C8: a token of effective type color whose alias chain ends at a token
\* holding a dimension value makes validate return valid = false.
C8_AliasCheckedAfterResolution ==
    pc = "done" =>
        \A p \in DocTokenPaths :
            (/\ IsAlias(TokenAt(p).value)
             /\ EffectiveType(p) = "color"
             /\ TokenAt(ChainEnd(p)).value.kind = "dimension") => ~valid

\* the segments of the pointer {"$ref": "#/s1/s2"}
PointerSegments(v) == Split(SubSeq(v.ref, 3, Len(v.ref)), "/")

RECURSIVE PointerAddresses(_, _)
\* walking the segments from this node of the raw document ends at a value;
\* the pointers of the model address nodes and their $value
PointerAddresses(node, segs) ==
    IF Len(segs) = 0 THEN TRUE
    ELSE IF segs[1] = <<"$", "value">> THEN HasValue(node) /\ Len(segs) = 1
    ELSE \E i \in 1..Len(node.entries) :
            /\ node.entries[i].key = segs[1]
            /\ PointerAddresses(node.entries[i].node, Tail(segs))

\* C9: a token whose $value is a well-formed JSON Pointer that addresses
\* nothing in the document gets a reference diagnostic.
C9_DanglingPointerDiagnosed ==
    pc = "done" =>
        \A p \in DocTokenPaths :
            LET v == TokenAt(p).value
            IN  (/\ v.kind = "ref" /\ JsonPointerOk(v.ref)
                 /\ ~PointerAddresses(doc, PointerSegments(v))) =>
                    \E code \in {E030, E031, E032} : HasError(code, p)

\* the child keys of the group node
ChildKeys(node) == {node.entries[i].key : i \in 1..Len(node.entries)}
ChildOf(node, k) ==
    node.entries[CHOOSE i \in 1..Len(node.entries) : node.entries[i].key = k].node

\* C10: a group B that $extends a group A has, after validation, A's
\* children it does not declare (under B's path) and its own children.
C10_ExtendsMergesChildren ==
    pc = "done" =>
        \A b \in DocGroupPaths :
            LET B == GroupAt(b)
            IN  (IsAlias(B.extends) /\ AliasPath(B.extends) \in DocGroupPaths) =>
                    LET A == GroupAt(AliasPath(B.extends))
                    IN  /\ \A k \in ChildKeys(B) :
                              /\ MapHas(tokens, Join(Append(b, k), "."))
                              /\ Exposed(Append(b, k)) = ChildOf(B, k).value
                        /\ \A k \in ChildKeys(A) \ ChildKeys(B) :
                              /\ MapHas(tokens, Join(Append(b, k), "."))
                              /\ Exposed(Append(b, k)) = ChildOf(A, k).value

\* the group p extends the group q
ExtendsEdge(p, q) ==
    /\ p \in DocGroupPaths /\ q \in DocGroupPaths
    /\ IsAlias(GroupAt(p).extends) /\ AliasPath(GroupAt(p).extends) = q
\* the tokens indexed directly under the group p are its own children
KeepsOwnChildren(p) ==
    /\ \A k \in ChildKeys(GroupAt(p)) : MapHas(tokens, Join(Append(p, k), "."))
    /\ \A i \in 1..Len(tokens) :
          LET tp == Split(tokens[i].key, ".")
          IN  (Len(tp) = Len(p) + 1 /\ SubSeq(tp, 1, Len(p)) = p) =>
                  tp[Len(tp)] \in ChildKeys(GroupAt(p))

\* C11: two groups that extend each other make validate report exactly one
\* circular-reference error, and both keep exactly their own children.
C11_ExtendsCycleOneError ==
    pc = "done" =>
        \A p, q \in DocGroupPaths :
            (p # q /\ ExtendsEdge(p, q) /\ ExtendsEdge(q, p)) =>
                /\ CountCode(E031) = 1
                /\ KeepsOwnChildren(p) /\ KeepsOwnChildren(q)

\* the object-valued children of the groups of the document, by path; the
\* last element of a path is the name of the child
NamedChildren ==
    UNION {{Append(g.path, k) : k \in ChildKeys(g.node)} :
             g \in {n \in DocNodes : ~HasValue(n.node)}}
\* the name grammar rejects the name
NameRejected(name) ==
    \/ Len(name) = 0
    \/ StartsWith(name, "$") /\ name \notin KNOWN_RESERVED_PROPERTIES
    \/ \E i \in 1..Len(name) : name[i] \in {".", "{", "}"}

\* C12: for every node whose name the name grammar rejects, at any depth,
\* validate reports an E002 or an E011 at that node and returns valid = false.
C12_RejectedNameReported ==
    pc = "done" =>
        \A p \in NamedChildren :
            NameRejected(p[Len(p)]) =>
                /\ HasError(E002, p) \/ HasError(E011, p)
                /\ ~valid

\* C12 witness: a finished run over a document that has a node with a dot in
\* its name below the root level, reported as E002.
C12_Witness ==
    /\ pc = "done"
    /\ \E p \in NamedChildren :
          /\ Len(p) >= 2 /\ p[Len(p)] = <<"a", ".", "b">>
          /\ HasError(E002, p) /\ ~valid

\* C13: validate on an input that is no JSON object, and validateJSON on a
\* text that does not parse, return valid = false with exactly one error, of
\* code E001, and with empty tokens and groups.
C13_FatalInputSingleE001 ==
    (pc = "done" /\ doc.kind # "object") =>
        /\ ~valid
        /\ Len(errors) = 1 /\ errors[1].code = E001
        /\ tokens = <<>> /\ groups = {}

\* path p starts with path q
HasPrefix(p, q) == Len(p) >= Len(q) /\ SubSeq(p, 1, Len(q)) = q
\* an error is reported at or under the $value of the token at p
ValueErrorAt(p) ==
    \E i \in 1..Len(errors) : HasPrefix(errors[i].path, Append(p, <<"$", "value">>))
\* the token at p is a child under an ordinary name, not a $root token
OrdinaryToken(p) == p \in DocTokenPaths /\ ~StartsWith(p[Len(p)], "$")

InheritedType(p) ==
    IF Len(p) = 0 THEN NoType ELSE EffectiveType(SubSeq(p, 1, Len(p) - 1))
\* the concrete value of the token at p was checked against the type ty, and
\* against no other type
CheckedAgainst(p, ty) ==
    LET v == TokenAt(p).value
    IN  IsConcrete(v) =>
            /\ ValueErrorAt(p) <=> (ty # NoType /\ ~ValueOkForType(ty, v))
            /\ \A i \in 1..Len(errors) :
                  HasPrefix(errors[i].path, Append(p, <<"$", "value">>)) =>
                      errors[i].code = getErrorCodeForType(ty)
\* the $type of the node is present and no token type
HasInvalidType(node) == HasType(node) /\ node.type \notin TOKEN_TYPES

C16_ValidIffNoErrors ==
    pc = "done" => (valid <=> Len(errors) = 0)

\* C16 witness: a finished run that reported warnings and no error, and
\* returned valid = true.
C16_Witness ==
    pc = "done" /\ Len(warnings) > 0 /\ Len(errors) = 0 /\ valid

\* the registry of the result holds every token and every group of the
\* document
RegistryComplete ==
    /\ \A p \in DocTokenPaths : MapHas(tokens, Join(p, "."))
    /\ \A p \in DocGroupPaths : Join(p, ".") \in groups

\* C17: diagnostics are accumulated and never stop the walk: whatever the
\* errors, tokens holds the path of every token node of the document and
\* groups the path of every group node below the root.
C17_WalkIndexesEveryNode ==
    (pc = "done" /\ doc.kind = "object") => RegistryComplete

\* an error is reported at or under the token at p
ErrorAt(p) == \E i \in 1..Len(errors) : HasPrefix(errors[i].path, p)

\* C18: a token whose effective type allows plain strings (fontFamily,
\* fontWeight, strokeStyle) and whose $value is a string that the grammar of
\* that type allows gets no error.
C18_PlainStringValueAccepted ==
    pc = "done" =>
        \A p \in DocTokenPaths :
            LET v == TokenAt(p).value
                ty == EffectiveType(p)
            IN  (/\ IsString(v) /\ ~IsBracedString(v)
                 /\ ty \in {"fontFamily", "fontWeight", "strokeStyle"}
                 /\ ValueOkForType(ty, v)) => ~ErrorAt(p)

\* the paths of the $root tokens of the document
RootTokenPaths == {p \in DocTokenPaths : p[Len(p)] = <<"$", "root">>}
\* the string "{group.$root}" that names the $root token at path r
RootAlias(r) == Str(<<"{">> \o Join(r, ".") \o <<"}">>)

\* C19: a $root child that carries $value is indexed as a token at
\* group.$root, is not subjected to the name grammar, and a token whose
\* $value is "{group.$root}" gets no format error and no reference error.
C19_RootTokenIndexedAndAliasable ==
    pc = "done" =>
        \A r \in RootTokenPaths :
            /\ MapHas(tokens, Join(r, "."))
            /\ ~HasError(E002, r)
            /\ \A p \in DocTokenPaths :
                  TokenAt(p).value = RootAlias(r) =>
                      /\ ~ValueErrorAt(p)
                      /\ \A code \in {E030, E031, E032} : ~HasError(code, p)

\* $deprecated is set: true, or a reason given as a string
DeprecationSet(d) == d = Bool(TRUE) \/ (d.kind = "string" /\ Len(d.chars) >= 1)

RECURSIVE WithoutDeprecated(_)
\* the document with the $deprecated of every token taken away
WithoutDeprecated(node) ==
    [node EXCEPT
        !.deprecated = IF HasValue(node) THEN Absent ELSE @,
        !.entries = [i \in 1..Len(@) |->
                        Entry(@[i].key, WithoutDeprecated(@[i].node))]]
\* the errors of the first two passes over a document
StructuralErrors(d) ==
    validateNode(d, <<>>, [EmptyContext EXCEPT !.errors = SchemaErrors(d)], NoType).errors

C21_SameInputSameResult ==
    pc = "done" =>
        \A i \in 1..Len(history) : history[i].data = doc => history[i] = Result

\* C21 witness: the third call has returned; the first and the third were
\* on the same document, whose aliases were resolved through other tokens,
\* and the call in between was on another input.
C21_Witness ==
    /\ pc = "done" /\ Len(history) = 2
    /\ history[1].data = doc /\ history[2].data # doc
    /\ history[1] = Result
    /\ Len(errors) > 0 /\ Cardinality(visited) >= 2

\* C22: validateTokenValue(v, "cubicBezier") succeeds exactly when v is an
\* array of exactly four numbers whose first and third entries lie in
\* [0, 1]; the second and the fourth entry are free.
FourNumbers(v) ==
    /\ v.kind = "array"
    /\ Len(v.items) = 4
    /\ \A i \in 1..Len(v.items) : v.items[i].kind = "number"
InUnitInterval(x) == x.n >= 0 /\ x.n <= 10
C22_CubicBezierP1xP2xOnly ==
    (apiType = "cubicBezier" /\ apiResult # NoResult) =>
        (apiResult.success <=>
            /\ FourNumbers(apiValue)
            /\ InUnitInterval(apiValue.items[1])
            /\ InUnitInterval(apiValue.items[3]))
\* [0, -5, 1, 5] has been accepted
C22_Witness ==
    /\ apiType = "cubicBezier"
    /\ apiValue = Arr(<<Num(0), Num(-50), Num(10), Num(50)>>)
    /\ apiResult # NoResult
    /\ apiResult.success

\* the code of the value violations of a type
TypeCode(ty) ==
    CASE ty = "color" -> "E040"
      [] ty = "dimension" -> "E041"
      [] ty = "fontWeight" -> "E042"
      [] ty = "duration" -> "E043"
      [] ty = "cubicBezier" -> "E044"
      [] ty = "gradient" -> "E045"
      [] ty \in {"border", "strokeStyle"} -> "E046"
\* a value that is neither an alias string nor a pointer object
IsLiteral(v) == v.kind \notin {"absent", "ref"} /\ ~IsBracedString(v)
\* an error with this code is reported at or under the $value of the token at p
CodedValueErrorAt(p, code) ==
    \E i \in 1..Len(errors) :
        /\ errors[i].code = code
        /\ HasPrefix(errors[i].path, Append(p, <<"$", "value">>))

\* C23: a token whose concrete $value violates the grammar of its effective
\* type gets at least one error with the code of that type (E040 color,
\* E041 dimension, E042 fontWeight, E043 duration, E044 cubicBezier, E045
\* gradient, E046 border and strokeStyle) at a path that starts with the
\* path of the token followed by "$value".
C23_ViolationCarriesTypeCode ==
    pc = "done" =>
        \A p \in DocTokenPaths :
            LET v == TokenAt(p).value
                ty == EffectiveType(p)
            IN  (/\ IsLiteral(v)
                 /\ ty \in CodedTypes
                 /\ ~ValueOkForType(ty, v)) => CodedValueErrorAt(p, TypeCode(ty))

\* the line the message of parseTokenFile holds for a diagnostic
ListedAs(e) ==
    <<"[", e.code, "]", " ">> \o Join(e.path, ".") \o <<":", " ">> \o MessageOf(e)
\* the lines of a message after its first line
LinesAfterFirst(message) ==
    LET lines == Split(message, "\n")
    IN  SubSeq(lines, 2, Len(lines))

\* C24: parseTokenFile(data) returns the very same data exactly when
\* validateTokenFile(data).valid is true, and otherwise throws an Error whose
\* message starts with "Invalid token file" and lists every error as
\* [code] path: message; isValidTokenFile(data) equals
\* validateTokenFile(data).valid.
C24_ParseReturnsOrThrows ==
    outcome # NoResult =>
        /\ entry = "isValidTokenFile" => outcome = Returned(Bool(valid))
        /\ entry = "parseTokenFile" =>
              /\ valid <=> outcome = Returned(doc)
              /\ ~valid =>
                    /\ outcome.kind = "thrown"
                    /\ outcome.message[1] = "Invalid token file"
                    /\ LinesAfterFirst(outcome.message)
                          = [i \in 1..Len(errors) |-> ListedAs(errors[i])]
\* C24 witness: parseTokenFile has thrown on a document with two errors at
\* paths of different lengths
C24_Witness ==
    /\ entry = "parseTokenFile"
    /\ outcome # NoResult
    /\ outcome.kind = "thrown"
    /\ Len(errors) >= 2
    /\ \E i, j \in 1..Len(errors) : Len(errors[i].path) > Len(errors[j].path)
    /\ Len(errors[1].path) >= 1

\* the keys of result.tokens
TokenKeys == {tokens[i].key : i \in 1..Len(tokens)}
\* the nodes of the document below the root that the index holds a key for
IndexedNodes ==
    {n \in DocNodes : n.path # <<>> /\ Join(n.path, ".") \in TokenKeys \cup groups}

\* C25: after validate, result.tokens and result.groups are disjoint and the
\* index is injective: no path string is both a token path and a group path,
\* and two distinct nodes of the document never share one index key.
C25_IndexDisjointAndInjective ==
    pc = "done" =>
        /\ TokenKeys \cap groups = {}
        /\ \A n1, n2 \in IndexedNodes :
              n1.path # n2.path => Join(n1.path, ".") # Join(n2.path, ".")

\* C26: in every result of validate and validateJSON each entry of errors
\* has severity "error" and each entry of warnings has severity "warning".
C26_SeverityMatchesList ==
    pc = "done" =>
        /\ \A i \in 1..Len(errors) : errors[i].severity = "error"
        /\ \A i \in 1..Len(warnings) : warnings[i].severity = "warning"
\* C26 witness: a finished run that reported an error from the schema pass,
\* an error from the walk and a warning
C26_Witness ==
    /\ pc = "done"
    /\ Len(warnings) >= 1
    /\ Len(errors) >= 2
    /\ warnings[1].severity = "warning"
    /\ errors[1].severity = "error"

\* C27: validate reports each problem once: errors never holds two entries
\* with the same code and the same path.
C27_NoDuplicateDiagnostics ==
    pc = "done" =>
        \A i, j \in 1..Len(errors) :
            (errors[i].code = errors[j].code /\ errors[i].path = errors[j].path)
                => i = j

\* the paths parseTokenObject lists as color tokens
ListedPaths ==
    {parseResult.colorTokens[i].path : i \in 1..Len(parseResult.colorTokens)}

\* C28: extractColorTokens lists a token as a color token exactly when the
\* token's effective type (its own $type, else that of the nearest ancestor
\* group) is color and its $value is a concrete color object.
C28_ListedIffEffectiveColor ==
    visPc = "done" =>
        \A p \in DocTokenPaths :
            Join(p, ".") \in ListedPaths
                <=> (EffectiveType(p) = "color" /\ TokenAt(p).value.kind = "color")

\* the file failed: it could not be read or its result is not valid
FileFailed(file) == ~file.read \/ ~file.valid
\* the files the loop of validateFiles has gone through
FilesDone == fileIdx - 1
FailedAmong(n) == Cardinality({i \in 1..n : FileFailed(files[i])})

AfterDrop == Len(delivered) > 0 /\ delivered[Len(delivered)].type = "drop"

\* C30: for every sequence of dragenter, dragleave, dragover and drop events
\* isDragging is true only while dragCounter >= 1, dragCounter is never
\* negative, and right after a drop dragCounter = 0 and isDragging = false.
C30_OverlayFollowsCounter ==
    /\ dragCounter >= 0
    /\ isDragging => dragCounter >= 1
    /\ AfterDrop => (dragCounter = 0 /\ ~isDragging)

====
